---- MODULE Spec2Model ----
(***************************************************************************)
(* The box engine of src/index.js (second, current definition of Box and   *)
(* recalculate_containment, lines 408-845) with the rule library of        *)
(* src/classes.js.  One action is one complete top-level call: the whole   *)
(* synchronous listener cascade it starts is computed by the recursive     *)
(* operators below, which thread a "world" record through the calls in the *)
(* order the JavaScript call stack runs them.                              *)
(***************************************************************************)
EXTENDS Integers, Sequences, FiniteSets, TLC

VARIABLES
  scn,    \* which set of boxes the page declares (fixed after Init)
  svgs,   \* Box.svgs: id -> sequence of dimensions <<left, top, right, bottom>>
  P,      \* Box.properties: id -> property name -> {value, listeners}
  S,      \* the `state` Map of each subscribe_relation closure, keyed <<box id, label>>
  color   \* SvgBox fill set through Box.set_color

vars == <<scn, svgs, P, S, color>>

----------------------------------------------------------------------------
(* Program constants *)

TRANSFER == "Transfer"
YEARS == {"2022-23", "2023-24", "2024-25", "2025-26"}
QUARTERS == {"Fall", "Winter", "Spring"}
QuarterUnitMax == 22
TransferUnitMax == 45
ScienceUnitMin == 11
ElectivesChildrenMin == 2

(* Bounds of the model *)
MaxExtraRegions == 1

\* "probe" is a property only a caller of the Box methods uses.
PropNames == {"parents", "children", "units", "total-units", "errors", "counted-by",
              "probe"}

\* Property values are typed per property; this is the value a property
\* record carries while it has no value (value == null).
NoValue(prop) ==
  CASE prop \in {"parents", "children", "errors"} -> <<>>
    [] prop \in {"counted-by", "probe"} -> {}
    [] OTHER -> 0

----------------------------------------------------------------------------
(* Maps *)

MapSet(m, k, v) == (k :> v) @@ m
MapDel(m, k) == [x \in DOMAIN m \ {k} |-> m[x]]
MapGet0(m, k) == IF k \in DOMAIN m THEN m[k] ELSE 0

\* The value of one entry taken as the sum (a variant, not the program's).
SumOver_first(m, ks) ==
  IF ks = {} THEN 0 ELSE m[CHOOSE x \in ks : TRUE]

\* [...state.values()].reduce((a, b) => a + b, 0)
RECURSIVE SumOver(_, _)
SumOver(m, ks) ==
  IF ks = {} THEN 0
  ELSE LET k == CHOOSE x \in ks : TRUE IN m[k] + SumOver(m, ks \ {k})

----------------------------------------------------------------------------
(* Geometry *)

\* The placements the geometry input is drawn from: two nested rectangles
\* and one that lies inside the outer one but for its bottom edge, which
\* touches the outer one's.  Two regions may have the same placement.
Outer == <<0, 0, 5, 5>>
Inner == <<1, 1, 4, 4>>
Touch == <<1, 1, 4, 5>>
Rects == {Outer, Inner, Touch}

\* The placements used with each set of boxes.
Placements(sc) == IF sc = "quarter" THEN Rects ELSE {Outer, Inner}

\* is_parent(p_dim) with dim the changed box's region.
is_parent(p, dim) ==
  p[1] < dim[1] /\ p[2] < dim[2] /\ p[3] > dim[3] /\ p[4] > dim[4]

\* is_child with a bottom edge that may touch (a variant, not the program's).
is_child_touching(c, dim) ==
  c[1] > dim[1] /\ c[2] > dim[2] /\ c[3] < dim[3] /\ c[4] <= dim[4]

\* is_child(c_dim) with dim the changed box's region.
is_child(c, dim) ==
  c[1] > dim[1] /\ c[2] > dim[2] /\ c[3] < dim[3] /\ c[4] < dim[4]

\* parent_count / child_count of one candidate against the changed box.
parent_count(g, id, cand) ==
  Cardinality({ij \in (DOMAIN g[id]) \X (DOMAIN g[cand]) :
                 is_parent(g[cand][ij[2]], g[id][ij[1]])})
child_count(g, id, cand) ==
  Cardinality({ij \in (DOMAIN g[id]) \X (DOMAIN g[cand]) :
                 is_child(g[cand][ij[2]], g[id][ij[1]])})

----------------------------------------------------------------------------
(* The boxes the page declares (src/classes.js, lines 251-392) *)

Scenarios == {"quarter", "claims"}

\* Registry (Map) insertion order of `boxes`: the order of the add_box calls.
Order(sc) ==
  CASE sc = "quarter" -> <<"MATH 19", "Fall 2022-23", "MATH 147">>
    [] sc = "taken" -> <<"MATH 19", "Fall 2022-23", TRANSFER, "MATH 147">>
    [] sc = "required" -> <<"PHYSICS 41", "PHYSICS 43", "CS Science Req">>
    [] sc = "scheduled" -> <<"PHYSICS 41", "Fall 2022-23", TRANSFER, "CS Science Req">>
    [] sc = "electives" -> <<"MATH 19", "MATH 61CM", "CS Math Electives Req">>
    [] OTHER -> <<"CS 111", "Systems Core", "Technology in Society">>

Ids == {"MATH 19", "Fall 2022-23", TRANSFER, "MATH 147",
        "CS 111", "Systems Core", "Technology in Society",
        "PHYSICS 41", "PHYSICS 43", "CS Science Req",
        "MATH 61CM", "CS Math Electives Req"}

\* The ids in the order Array.prototype.sort() puts them (by code unit).
IdOrder == <<"CS 111", "CS Math Electives Req", "CS Science Req", "Fall 2022-23",
             "MATH 147", "MATH 19", "MATH 61CM", "PHYSICS 41", "PHYSICS 43",
             "Systems Core", "Technology in Society", TRANSFER>>

Range(s) == {s[i] : i \in DOMAIN s}

Type(id) ==
  CASE id \in {"MATH 19", "MATH 147", "CS 111", "PHYSICS 41", "PHYSICS 43", "MATH 61CM"}
         -> "class"
    [] id = "Fall 2022-23" -> "quarter"
    [] id = TRANSFER -> "transfer"
    [] OTHER -> "track-req"

\* class_data[id].units and math_147_init
class_data(id) ==
  CASE id = "MATH 19" -> 3
    [] id = "CS 111" -> 4
    [] id \in {"PHYSICS 41", "PHYSICS 43"} -> 4
    [] id = "MATH 61CM" -> 5
    [] id = "MATH 147" -> 24
    [] OTHER -> 0

\* The value a later write of `units` stores (the one math_147_init writes).
UnitValues == {class_data("MATH 147")}

\* unit_limit of the unit_max rule the box's script installs.
unit_limit(id) == IF id = TRANSFER THEN TransferUnitMax ELSE QuarterUnitMax

\* The rules installed after add_box (subscribers.X(box) at top level).
PostRules(id) ==
  IF id \in {"Systems Core", "Technology in Society"}
  THEN {"count-children-once"} ELSE {}

\* subscribe_relation's parameters for each rule of the library, by label.
RelRules == {"taken-once", "total-units", "count-children-once", "not-scheduled",
             "required-children", "restricted-children", "children-min"}

\* The arguments of the rule constructors that take one.
required_set(id) == IF id = "CS Science Req" THEN {"PHYSICS 41", "PHYSICS 43"} ELSE {}
restricted_set(id) == {"MATH 61CM", "MATH 62CM", "MATH 63CM"}
children_min(id) == ElectivesChildrenMin
unit_min(id) == ScienceUnitMin

\* The rules installed right after the box's add_box, in order.
After(id) ==
  CASE id = "CS Science Req" ->
         <<[k |-> "rule", rule |-> "required-children"], [k |-> "rule", rule |-> "unit-min"]>>
    [] id = "CS Math Electives Req" ->
         <<[k |-> "rule", rule |-> "restricted-children"],
           [k |-> "rule", rule |-> "children-min"]>>
    [] OTHER -> <<>>
Relation(label) == IF label = "taken-once" THEN "parents" ELSE "children"
\* No rule with a tracked property (a variant, not the program's).
Property_untracked(label) == ""

\* "" stands for property == null
Property(label) ==
  CASE label = "total-units" -> "units"
    [] label = "count-children-once" -> "counted-by"
    [] label = "not-scheduled" -> "parents"
    [] OTHER -> ""
HasHooks(label) == label = "count-children-once"

----------------------------------------------------------------------------
(* The world threaded through one top-level call *)

NoProp(prop) == [ex |-> FALSE, has |-> FALSE, val |-> NoValue(prop), ls |-> <<>>]

Event(e, box, rule, rel, d) == [e |-> e, box |-> box, rule |-> rule, rel |-> rel, d |-> d]

Ev(w, ev) == IF w.fault # "" THEN w ELSE [w EXCEPT !.log = Append(@, ev)]

Throw(w, msg) == IF w.fault # "" THEN w ELSE [w EXCEPT !.fault = msg]

\* A callback: which closure it is.
Cb(k, box, rule, rel) == [k |-> k, box |-> box, rule |-> rule, rel |-> rel]

\* properties.has(prop) false -> properties.set(prop, {listeners: new Map()})
Ensure(w, id, prop) ==
  IF w.fault # "" THEN w ELSE [w EXCEPT !.P[id][prop].ex = TRUE]

\* The stored field read whether it holds a value or not (a variant, not
\* the program's).
get_property_stored(w, id, prop, dflt) == w.P[id][prop].val

\* Box.get_property with a default_value: the value read.
get_property(w, id, prop, dflt) ==
  IF w.P[id][prop].has THEN w.P[id][prop].val ELSE dflt

\* The default that does not throw (a variant, not the program's).
get_property_lenient(w, id, prop) ==
  IF w.fault # "" THEN w ELSE [w EXCEPT !.P[id][prop].ex = TRUE]

\* Box.get_property without default_value: the world after the call (the
\* default throws when the property has no value).
get_property_strict(w, id, prop) ==
  IF w.P[id][prop].has THEN Ensure(w, id, prop)
  ELSE Throw(Ensure(w, id, prop), "Tried to access uninitialized property: " \o prop)

LiveIndex(ls, label) == {i \in DOMAIN ls : ls[i].live /\ ls[i].label = label}

\* A subscription that always adds an entry (a variant, not the program's).
subscribe_append(w, id, prop, label, cb) ==
  IF w.fault # "" THEN w
  ELSE Ev([w EXCEPT !.P[id][prop].ex = TRUE,
                    !.P[id][prop].ls = Append(@, [label |-> label, cb |-> cb, live |-> TRUE])],
          Event("subscribe", id, label, prop, <<>>))

\* Box.subscribe: Map.set keeps the position of a label that is present and
\* appends a new one.
subscribe(w, id, prop, label, cb) ==
  IF w.fault # "" THEN w
  ELSE LET ls == w.P[id][prop].ls
           at == LiveIndex(ls, label)
           nls == IF at = {}
                  THEN Append(ls, [label |-> label, cb |-> cb, live |-> TRUE])
                  ELSE [ls EXCEPT ![CHOOSE i \in at : TRUE].cb = cb]
       IN Ev([w EXCEPT !.P[id][prop].ex = TRUE, !.P[id][prop].ls = nls],
             Event("subscribe", id, label, prop, <<>>))

\* unsubscribe that deletes nothing (a variant, not the program's).
unsubscribe_nothing(w, id, prop, label) == w

\* Box.unsubscribe: Map.delete; a running iteration over the listeners does
\* not visit the deleted entry and keeps its place (the entry is marked dead
\* here and dropped when the top-level call returns).  With no property
\* record the else branch evaluates the undeclared name `value`.
unsubscribe(w, id, prop, label) ==
  IF w.fault # "" THEN w
  ELSE IF ~w.P[id][prop].ex THEN Throw(w, "ReferenceError: value is not defined")
  ELSE LET ls == w.P[id][prop].ls
           nls == [i \in DOMAIN ls |->
                     IF ls[i].label = label THEN [ls[i] EXCEPT !.live = FALSE] ELSE ls[i]]
       IN Ev([w EXCEPT !.P[id][prop].ls = nls], Event("unsubscribe", id, label, prop, <<>>))

----------------------------------------------------------------------------
(* The synchronous cascade: set_property, its listeners, the combinator *)

Msg(t, a) == [t |-> t, a |-> a]

RECURSIVE set_property(_, _, _, _, _, _)
RECURSIVE RunUpdate(_, _, _, _)
RECURSIVE update_loop(_, _, _, _, _)
RECURSIVE update_loop_late(_, _, _, _, _)
RECURSIVE Fire(_, _, _, _, _)
RECURSIVE Fire_reversed(_, _, _, _, _)
RECURSIVE Fire_deleted(_, _, _, _, _)
RECURSIVE set_error_alone(_, _, _, _)
RECURSIVE Invoke(_, _, _)
RECURSIVE relation_listener(_, _, _, _, _)
RECURSIVE on_add(_, _, _, _)
RECURSIVE property_callback(_, _, _, _)
RECURSIVE callback(_, _, _)
RECURSIVE hooks_enter(_, _, _, _)
RECURSIVE hooks_exit(_, _, _, _)
RECURSIVE set_error(_, _, _, _)
RECURSIVE clear_error(_, _, _)
RECURSIVE check_unit_max(_, _)
RECURSIVE check_unit_min(_, _)

\* The relative written on the same field (a variant, not the program's).
relative_field_same(field) == field

\* const relative_field = field == "parents" ? "children" : "parents"
relative_field(field) == IF field = "parents" THEN "children" ELSE "parents"

\* A count of 0 stored like any other (a variant, not the program's).
write_count_always(m, k, new_count) == MapSet(m, k, new_count)

\* The two branches of the loop of `update`, on one map: a new count of 0
\* deletes the entry, any other count is stored.
write_count(m, k, new_count) ==
  IF new_count = 0 THEN MapDel(m, k) ELSE MapSet(m, k, new_count)

\* The new count passed instead of the difference (a variant, not the
\* program's).
relative_delta_count(new_count, original, relative_id) == new_count

\* The number passed to the relative's listeners under this box's id:
\* 0 - original.get(relative_id), or new_count - (original.get(relative_id) ?? 0).
relative_delta(new_count, original, relative_id) ==
  IF new_count = 0 THEN 0 - original[relative_id]
  ELSE new_count - MapGet0(original, relative_id)

\* Box.set_color
set_color(w, id, c) == IF w.fault # "" THEN w ELSE [w EXCEPT !.color[id] = c]

\* A listener of errors that writes counted-by (a variant, not the
\* program's).
error_color_counting(w, id) ==
  set_property(w, id, "counted-by", {}, [k |-> "set-add", v |-> id], <<>>)

\* The "error-color" listener of subscribers.error
error_color(w, id) ==
  LET w1 == get_property_strict(w, id, "errors")
  IN IF w1.fault # "" THEN w1
     ELSE IF DOMAIN w1.P[id]["errors"].val # {}
          THEN set_color(w1, id, "#F00000A0")
          ELSE set_color(w1, id, "none")

\* Box.set_property(prop, initializer, update, delta); `init` is what
\* initializer() returns, `upd` says what the update callback does.
set_property(w, id, prop, init, upd, delta) ==
  IF w.fault # "" THEN w
  ELSE LET w1 == [w EXCEPT !.P[id][prop].ex = TRUE,
                           !.P[id][prop].val = IF w.P[id][prop].has THEN @ ELSE init,
                           !.P[id][prop].has = TRUE]
           w2 == Ev(w1, Event("set", id, "", prop, delta))
           w3 == RunUpdate(w2, id, prop, upd)
       IN Ev(Fire(w3, id, prop, 1, delta), Event("return", id, "", prop, delta))

\* The update callbacks of the program.
RunUpdate(w, id, prop, upd) ==
  IF w.fault # "" THEN w
  ELSE CASE upd.k = "assign" -> [w EXCEPT !.P[id][prop].val = upd.v]
         [] upd.k = "map-set" -> [w EXCEPT !.P[id][prop].val = MapSet(@, upd.key, upd.v)]
         [] upd.k = "map-del" -> [w EXCEPT !.P[id][prop].val = MapDel(@, upd.key)]
         [] upd.k = "set-add" -> [w EXCEPT !.P[id][prop].val = @ \cup {upd.v}]
         [] upd.k = "set-del" -> [w EXCEPT !.P[id][prop].val = @ \ {upd.v}]
         [] upd.k = "write-count" ->
              [w EXCEPT !.P[id][prop].val = write_count(@, upd.key, upd.v)]
         [] upd.k = "relations" -> update_loop(w, id, prop, upd, 1)
         [] OTHER -> w

\* The loop with the relative's set_property called before this box's map is
\* written (a variant, not the program's).
update_loop_late(w, id, field, upd, i) ==
  IF w.fault # "" \/ i > Len(upd.updated) THEN w
  ELSE LET relative_id == upd.updated[i][1]
           new_count == upd.updated[i][2]
           w1 == set_property(w, relative_id, relative_field(field), <<>>,
                              [k |-> "write-count", key |-> id, v |-> new_count],
                              <<<<id, relative_delta(new_count, upd.original, relative_id)>>>>)
           w2 == IF w1.fault # "" THEN w1
                 ELSE [w1 EXCEPT !.P[id][field].val = write_count(@, relative_id, new_count)]
       IN update_loop_late(w2, id, field, upd, i + 1)

\* The update callback of recalculate_containment/update: the loop over
\* `updated`, which writes this box's map and calls the relative's
\* set_property on the mirrored field.
update_loop(w, id, field, upd, i) ==
  IF w.fault # "" \/ i > Len(upd.updated) THEN w
  ELSE LET relative_id == upd.updated[i][1]
           new_count == upd.updated[i][2]
           w1 == [w EXCEPT !.P[id][field].val = write_count(@, relative_id, new_count)]
           w2 == set_property(w1, relative_id, relative_field(field), <<>>,
                              [k |-> "write-count", key |-> id, v |-> new_count],
                              <<<<id, relative_delta(new_count, upd.original, relative_id)>>>>)
       IN update_loop(w2, id, field, upd, i + 1)

\* Whether the children and parents maps of a world mirror each other.
Mirrored(w) ==
  \A a \in DOMAIN w.P :
    /\ \A b \in DOMAIN w.P[a]["children"].val :
         /\ a \in DOMAIN w.P[b]["parents"].val
         /\ w.P[b]["parents"].val[a] = w.P[a]["children"].val[b]
    /\ \A b \in DOMAIN w.P[a]["parents"].val : a \in DOMAIN w.P[b]["children"].val

\* What a listener finds when it is called: sym stays TRUE as long as every
\* listener called so far found the maps mirrored.
Observe(w) == [w EXCEPT !.sym = @ /\ Mirrored(w)]

\* A loop that calls no listener (a variant, not the program's).
Fire_none(w, id, prop, i, delta) == w

\* A loop from the last entry to the first (a variant, not the program's).
Fire_reversed(w, id, prop, i, delta) ==
  IF w.fault # "" \/ i > Len(w.P[id][prop].ls) THEN w
  ELSE LET l == w.P[id][prop].ls[Len(w.P[id][prop].ls) - i + 1]
       IN IF ~l.live THEN Fire_reversed(w, id, prop, i + 1, delta)
          ELSE Fire_reversed(
                 Ev(Invoke(Ev(w, Event("listener", id, l.label, prop, delta)), l.cb, delta),
                    Event("done", id, l.label, prop, Len(w.log) + 1)),
                 id, prop, i + 1, delta)

\* A loop that also calls the entries deleted since it started (a variant,
\* not the program's).
Fire_deleted(w, id, prop, i, delta) ==
  IF w.fault # "" \/ i > Len(w.P[id][prop].ls) THEN w
  ELSE LET l == w.P[id][prop].ls[i]
       IN Fire_deleted(
            Ev(Invoke(Ev(Observe(w), Event("listener", id, l.label, prop, delta)),
                      l.cb, delta),
               Event("done", id, l.label, prop, Len(w.log) + 1)),
            id, prop, i + 1, delta)

\* for (const [_label, listener] of property.listeners.entries()) listener(delta)
\* The log gets the call of each listener and, with the position of that
\* entry, its return.
Fire(w, id, prop, i, delta) ==
  IF w.fault # "" \/ i > Len(w.P[id][prop].ls) THEN w
  ELSE LET l == w.P[id][prop].ls[i]
       IN IF ~l.live THEN Fire(w, id, prop, i + 1, delta)
          ELSE Fire(Ev(Invoke(Ev(Observe(w), Event("listener", id, l.label, prop, delta)),
                              l.cb, delta),
                       Event("done", id, l.label, prop, Len(w.log) + 1)),
                    id, prop, i + 1, delta)

Invoke(w, cb, delta) ==
  CASE cb.k = "relation" -> relation_listener(w, cb.box, cb.rule, delta, 1)
    [] cb.k = "property" -> property_callback(w, cb.box, cb.rule, cb.rel)
    [] cb.k = "unit-max" -> check_unit_max(w, cb.box)
    [] cb.k = "unit-min" -> check_unit_min(w, cb.box)
    [] cb.k = "error-color" -> error_color(w, cb.box)
    [] cb.k = "probe" -> Ev(w, Event("probe", cb.box, cb.rule, cb.rel, delta))
    [] cb.k = "subscribes" ->
         subscribe(w, cb.box, cb.rel, cb.rule, Cb("probe", cb.box, cb.rule, cb.rel))
    [] cb.k = "unsubscribes" -> unsubscribe(w, cb.box, cb.rel, cb.rule)
    [] OTHER -> w

\* An error that replaces the whole map (a variant, not the program's).
set_error_alone(w, id, label, error) ==
  set_property(w, id, "errors", <<>>, [k |-> "assign", v |-> (label :> error)], <<>>)

\* Box.set_error / Box.clear_error
set_error(w, id, label, error) ==
  set_property(w, id, "errors", <<>>, [k |-> "map-set", key |-> label, v |-> error], <<>>)
clear_error(w, id, label) ==
  set_property(w, id, "errors", <<>>, [k |-> "map-del", key |-> label], <<>>)

\* A check that sets the error and never clears it (a variant, not the
\* program's).
check_unit_max_sticky(w, id) ==
  LET units == get_property(w, id, "total-units", 0)
      w1 == Ensure(w, id, "total-units")
  IN IF units > unit_limit(id)
     THEN set_error(w1, id, "units-max", Msg(">%d units", unit_limit(id)))
     ELSE w1

\* `check` of subscribers.unit_max
check_unit_max(w, id) ==
  LET units == get_property(w, id, "total-units", 0)
      w1 == Ensure(w, id, "total-units")
  IN IF units > unit_limit(id)
     THEN set_error(w1, id, "units-max", Msg(">%d units", unit_limit(id)))
     ELSE clear_error(w1, id, "units-max")

\* `check` of subscribers.unit_min
check_unit_min(w, id) ==
  LET units == get_property(w, id, "total-units", 0)
      w1 == Ensure(w, id, "total-units")
  IN IF units < unit_min(id)
     THEN set_error(w1, id, "units-min", Msg("<%d units", unit_min(id)))
     ELSE clear_error(w1, id, "units-min")

----------------------------------------------------------------------------
(* subscribe_relation (src/classes.js, lines 19-68) and the rules' closures *)

Key(box, label) == <<box, label>>

Some(v) == [some |-> TRUE, v |-> v]
None == [some |-> FALSE, v |-> 0]

\* An empty catalog (a variant, not the program's).
CatalogIds_none == {}

\* The ids quarter + " " + year of children_scheduled's loops.
CatalogIds == {q \o " " \o y : q \in QUARTERS, y \in YEARS}

\* filter_map(relative): the property records its get_property calls create,
\* and the fault of a get_property without default.
filter_map_reads(w, label, box, relative) ==
  CASE label = "total-units" -> Ensure(w, relative, "units")
    [] label = "count-children-once" -> Ensure(w, relative, "counted-by")
    [] label = "not-scheduled" ->
         IF Type(relative) # "class" THEN w ELSE get_property_strict(w, relative, "parents")
    [] OTHER -> w

\* A taken_at_most_once filter that lets every parent through (a variant,
\* not the program's).
filter_map_any(w, label, box, relative) ==
  IF label = "taken-once" THEN Some(TRUE) ELSE None

\* filter_map(relative): the value returned; None is null or undefined.
filter_map(w, label, box, relative) ==
  CASE label = "taken-once" ->
         IF Type(relative) = "quarter" \/ relative = TRANSFER THEN Some(TRUE) ELSE None
    [] label = "total-units" ->
         IF w.P[relative]["units"].has THEN Some(w.P[relative]["units"].val) ELSE None
    [] label = "count-children-once" ->
         LET size == Cardinality(get_property(w, relative, "counted-by", {}))
         IN IF size > 1 THEN Some(size) ELSE None
    [] label = "not-scheduled" ->
         LET parents == DOMAIN w.P[relative]["parents"].val
         IN IF Type(relative) # "class" THEN None
            ELSE IF TRANSFER \in parents THEN None
            ELSE IF parents \cap CatalogIds # {} THEN None
            ELSE Some(TRUE)
    [] label = "required-children" ->
         IF relative \in required_set(box) THEN Some(TRUE) ELSE None
    [] label = "restricted-children" ->
         IF relative \notin restricted_set(box) THEN Some(TRUE) ELSE None
    [] label = "children-min" -> Some(TRUE)
    [] OTHER -> None

\* [...ids].sort(): the ids of a set in sorted order.
RECURSIVE Sorted(_, _)
Sorted(ord, set) ==
  IF ord = <<>> THEN <<>>
  ELSE IF Head(ord) \in set THEN <<Head(ord)>> \o Sorted(Tail(ord), set)
  ELSE Sorted(Tail(ord), set)

\* What the callback of an error rule decides from its state: the error's
\* label, whether it is set (or cleared), and its message.
Verdict(label, set, msg) == [label |-> label, set |-> set, msg |-> msg]
verdict(state, box, label) ==
  CASE label = "taken-once" ->
         Verdict("already-taken", Cardinality(DOMAIN state) > 1,
                 Msg("%s already taken", box))
    [] label = "count-children-once" ->
         Verdict("count-children-once", Cardinality(DOMAIN state) > 0,
                 Msg("$Counted (%s)", state))
    [] label = "not-scheduled" ->
         Verdict("not-scheduled", Cardinality(DOMAIN state) > 0,
                 Msg("(%s) not scheduled", DOMAIN state))
    [] label = "required-children" ->
         Verdict("required-children", required_set(box) \ DOMAIN state # {},
                 Msg("Missing (%s)", Sorted(IdOrder, required_set(box) \ DOMAIN state)))
    [] label = "restricted-children" ->
         Verdict("restricted-children", Cardinality(DOMAIN state) # 0,
                 Msg("Cannot take %s", Sorted(IdOrder, DOMAIN state)))
    [] OTHER ->
         Verdict("children-min", Cardinality(DOMAIN state) < children_min(box),
                 Msg("<%d children", children_min(box)))

\* callback(state) of each rule.
callback(w, box, label) ==
  IF w.fault # "" THEN w
  ELSE LET state == w.S[Key(box, label)]
           w1 == Ev(w, Event("callback", box, label, "",
                             [keys |-> DOMAIN state,
                              present |-> DOMAIN w.P[box][Relation(label)].val]))
       IN IF label = "total-units"
          THEN set_property(w1, box, "total-units", 0,
                            [k |-> "assign", v |-> SumOver(state, DOMAIN state)], <<>>)
          ELSE IF verdict(state, box, label).set
          THEN set_error(w1, box, verdict(state, box, label).label,
                         verdict(state, box, label).msg)
          ELSE clear_error(w1, box, verdict(state, box, label).label)

\* hooks.enter / hooks.exit of subscribers.count_once
hooks_enter(w, box, label, relative) ==
  set_property(Ev(w, Event("enter", box, label, relative, <<>>)),
               relative, "counted-by", {}, [k |-> "set-add", v |-> box], <<>>)
hooks_exit(w, box, label, relative) ==
  set_property(Ev(w, Event("exit", box, label, relative, <<>>)),
               relative, "counted-by", {}, [k |-> "set-del", v |-> box], <<>>)

\* A null result that leaves the entry in place (a variant, not the
\* program's).
store_result_keep(state, relative, result) ==
  IF result.some THEN MapSet(state, relative, result.v) ELSE state

\* if (result != null) state.set(relative.id, result) else state.delete(relative.id)
store_result(state, relative, result) ==
  IF result.some THEN MapSet(state, relative, result.v) ELSE MapDel(state, relative)

\* A property_callback that stores the projection and does not call the
\* rule's callback (a variant, not the program's).
property_callback_silent(w, box, label, relative) ==
  IF w.fault # "" THEN w
  ELSE LET w1 == filter_map_reads(Ev(w, Event("project", box, label, relative, <<>>)),
                                  label, box, relative)
           result == filter_map(w1, label, box, relative)
       IN IF w1.fault # "" THEN w1
          ELSE [w1 EXCEPT !.S[Key(box, label)] = store_result(@, relative, result)]

\* property_callback of on_add
property_callback(w, box, label, relative) ==
  IF w.fault # "" THEN w
  ELSE LET w1 == filter_map_reads(Ev(w, Event("project", box, label, relative, <<>>)),
                                  label, box, relative)
           result == filter_map(w1, label, box, relative)
           w2 == IF w1.fault # "" THEN w1
                 ELSE [w1 EXCEPT !.S[Key(box, label)] = store_result(@, relative, result)]
       IN callback(w2, box, label)

on_add(w, box, label, relative) ==
  LET w1 == IF Property(label) # ""
            THEN subscribe(w, relative, Property(label), label \o box,
                           Cb("property", box, label, relative))
            ELSE w
  IN property_callback(w1, box, label, relative)

\* Every reported relative that is present taken as new (a variant, not the
\* program's).
is_new_relative_any(relations, relative_id, count) == TRUE

\* relations.get(relative_id) == count: the count now stored is the reported
\* change, so the count was 0 before.
is_new_relative(relations, relative_id, count) == relations[relative_id] = count

\* The listener subscribe_relation installs on box[relation]: the loop over
\* the entries of `updated`.
relation_listener(w, box, label, updated, i) ==
  IF w.fault # "" \/ i > Len(updated) THEN w
  ELSE LET relative_id == updated[i][1]
           count == updated[i][2]
           w0 == get_property_strict(w, box, Relation(label))
           relations == w0.P[box][Relation(label)].val
           w1 == IF w0.fault # "" THEN w0
                 ELSE IF relative_id \notin DOMAIN relations
                 THEN LET a == IF HasHooks(label) THEN hooks_exit(w0, box, label, relative_id) ELSE w0
                          b == IF a.fault # "" THEN a
                               ELSE [a EXCEPT !.S[Key(box, label)] = MapDel(@, relative_id)]
                          c == IF Property(label) # ""
                               THEN unsubscribe(b, relative_id, Property(label), label \o box)
                               ELSE b
                      IN callback(c, box, label)
                 ELSE IF is_new_relative(relations, relative_id, count)
                 THEN LET a == IF HasHooks(label) THEN hooks_enter(w0, box, label, relative_id) ELSE w0
                      IN on_add(a, box, label, relative_id)
                 ELSE w0
       IN relation_listener(w1, box, label, updated, i + 1)

\* The ids of a relation map in the order the installation loop visits them.
\* (A Map iterates in insertion order; the model keeps relation maps
\* unordered and visits them in registry order.)
RECURSIVE InOrder(_, _)
InOrder(ord, set) ==
  IF ord = <<>> THEN <<>>
  ELSE IF Head(ord) \in set THEN <<Head(ord)>> \o InOrder(Tail(ord), set)
  ELSE InOrder(Tail(ord), set)

RECURSIVE install_loop(_, _, _, _, _)
install_loop(w, box, label, rels, i) ==
  IF w.fault # "" \/ i > Len(rels) THEN w
  ELSE install_loop(on_add(w, box, label, rels[i]), box, label, rels, i + 1)

\* subscribe_relation(box, relation, label, property, filter_map, callback, hooks)
subscribe_relation(w, box, label) ==
  LET w1 == [w EXCEPT !.S = (Key(box, label) :> <<>>) @@ [k \in DOMAIN @ \ {Key(box, label)} |-> @[k]]]
      w2 == subscribe(Ev(w1, Event("install", box, label, "", <<>>)),
                      box, Relation(label), label, Cb("relation", box, label, ""))
      rels == InOrder(w2.ord, DOMAIN get_property(w2, box, Relation(label), <<>>))
  IN install_loop(Ensure(w2, box, Relation(label)), box, label, rels, 1)

----------------------------------------------------------------------------
(* recalculate_containment (src/index.js, lines 702-777) *)

\* The count compared with 0 instead of the stored one (a variant, not the
\* program's).
count_changed_from_zero(original, candidate_id, count) == count # 0

\* Every candidate that is or was a relative counted as changed (a variant,
\* not the program's).
count_changed_related(original, candidate_id, count) ==
  count # 0 \/ candidate_id \in DOMAIN original

\* (original.get(candidate_id) ?? 0) != count
count_changed(original, candidate_id, count) == MapGet0(original, candidate_id) # count

\* The loop without the skip of the box itself (a variant, not the
\* program's).
RECURSIVE changed_self(_, _, _, _, _)
changed_self(w, id, field, original, i) ==
  IF i > Len(w.ord) THEN <<>>
  ELSE LET candidate_id == w.ord[i]
           n == IF field = "parents" THEN parent_count(w.g, id, candidate_id)
                ELSE child_count(w.g, id, candidate_id)
       IN IF count_changed(original, candidate_id, n)
          THEN <<<<candidate_id, n>>>> \o changed_self(w, id, field, original, i + 1)
          ELSE changed_self(w, id, field, original, i + 1)

\* new_parents / new_children: the candidates, in registry order, whose
\* newly computed count differs from the stored one.
RECURSIVE changed(_, _, _, _, _)
changed(w, id, field, original, i) ==
  IF i > Len(w.ord) THEN <<>>
  ELSE LET candidate_id == w.ord[i]
           n == IF field = "parents" THEN parent_count(w.g, id, candidate_id)
                ELSE child_count(w.g, id, candidate_id)
       IN IF candidate_id # id /\ count_changed(original, candidate_id, n)
          THEN <<<<candidate_id, n>>>> \o changed(w, id, field, original, i + 1)
          ELSE changed(w, id, field, original, i + 1)

\* update(original, updated, field)
update(w, id, original, updated, field) ==
  IF Len(updated) = 0 THEN w
  ELSE LET delta == [i \in DOMAIN updated |->
                       <<updated[i][1], updated[i][2] - MapGet0(original, updated[i][1])>>]
       IN set_property(w, id, field, <<>>,
                       [k |-> "relations", original |-> original, updated |-> updated],
                       delta)

recalculate_containment(w, id) ==
  LET w1 == Ensure(Ensure(w, id, "parents"), id, "children")
      original_parents == get_property(w1, id, "parents", <<>>)
      original_children == get_property(w1, id, "children", <<>>)
      new_parents == changed(w1, id, "parents", original_parents, 1)
      new_children == changed(w1, id, "children", original_children, 1)
      w2 == Ev(w1, Event("recalculate", id, "", "",
                         [parents |-> new_parents, children |-> new_children]))
      w3 == update(w2, id, original_parents, new_parents, "parents")
  IN update(w3, id, original_children, new_children, "children")

\* add_box(box, svg_dimensions_list)
add_box(w, id, dims) ==
  LET w1 == [w EXCEPT !.ord = IF id \in Range(@) THEN @ ELSE Append(@, id),
                      !.g[id] = @ \o dims]
  IN recalculate_containment(w1, id)

----------------------------------------------------------------------------
(* The rule constructors and the boxes' scripts (src/classes.js) *)

\* subscribers.<rule>(box)
install(w, id, rule) ==
  CASE rule \in RelRules -> subscribe_relation(w, id, rule)
    [] rule = "unit-max" ->
         check_unit_max(subscribe(w, id, "total-units", "unit-max", Cb("unit-max", id, rule, "")), id)
    [] rule = "unit-min" ->
         check_unit_min(subscribe(w, id, "total-units", "unit-min", Cb("unit-min", id, rule, "")), id)
    [] rule = "error-color" ->
         subscribe(w, id, "errors", "error-color", Cb("error-color", id, rule, ""))
    [] OTHER -> w

\* box.set_property("units", () => 0, u => { u.value = v }, v - box.get_property("units", () => 0))
set_units(w, id, v) ==
  set_property(Ensure(w, id, "units"), id, "units", 0, [k |-> "assign", v |-> v],
               v - get_property(w, id, "units", 0))

\* What runs for a box before its add_box: the script passed to `new Box`
\* and the calls that follow the constructor.
Script(id) ==
  CASE Type(id) = "class" /\ id # "MATH 147" ->
         <<[k |-> "rule", rule |-> "taken-once"], [k |-> "units"],
           [k |-> "rule", rule |-> "error-color"]>>
    [] id = "MATH 147" ->
         <<[k |-> "units"], [k |-> "rule", rule |-> "error-color"],
           [k |-> "rule", rule |-> "taken-once"]>>
    [] Type(id) = "quarter" ->
         <<[k |-> "rule", rule |-> "unit-max"], [k |-> "rule", rule |-> "error-color"],
           [k |-> "rule", rule |-> "total-units"], [k |-> "total-units"]>>
    [] id = TRANSFER ->
         <<[k |-> "rule", rule |-> "unit-max"], [k |-> "rule", rule |-> "error-color"],
           [k |-> "rule", rule |-> "total-units"]>>
    [] OTHER ->
         <<[k |-> "rule", rule |-> "total-units"], [k |-> "rule", rule |-> "error-color"],
           [k |-> "rule", rule |-> "not-scheduled"]>>

\* One statement of a script.
statement(w, id, st) ==
  CASE st.k = "rule" -> install(w, id, st.rule)
    [] st.k = "units" -> set_units(w, id, class_data(id))
    [] OTHER -> set_property(w, id, "total-units", 0, [k |-> "none"], <<>>)

\* The statements of a script in order; an exception ends the script.  (The
\* world after each statement is computed once and passed on as a value.)
RECURSIVE run_script(_, _, _, _)
run_script(w, id, script, i) ==
  IF i > Len(script) THEN w
  ELSE CHOOSE r \in {IF v.fault # "" THEN v ELSE run_script(v, id, script, i + 1) :
                       v \in {statement(w, id, script[i])}} : TRUE

\* What the top level of classes.js does for one box: the box is
\* constructed, which runs its script, it is added, and the rules that
\* follow its add_box are installed.
declare(w, id, dims) ==
  CHOOSE r \in
    {IF u.fault # "" THEN u
     ELSE CHOOSE q \in {IF v.fault # "" THEN v ELSE run_script(v, id, After(id), 1) :
                          v \in {add_box(u, id, dims)}} : TRUE :
       u \in {run_script(w, id, Script(id), 1)}} : TRUE

\* The top level of classes.js for the boxes of one scenario, in order; an
\* exception ends it.
RECURSIVE load(_, _, _, _)
load(w, ord, g0, i) ==
  IF i > Len(ord) THEN w
  ELSE CHOOSE r \in {IF v.fault # "" THEN v ELSE load(v, ord, g0, i + 1) :
                       v \in {declare(w, ord[i], <<g0[ord[i]]>>)}} : TRUE

Empty(sc) ==
  [P |-> [id \in Range(Order(sc)) |-> [p \in PropNames |-> NoProp(p)]],
   S |-> <<>>,
   color |-> [id \in Range(Order(sc)) |-> ""],
   g |-> [id \in Range(Order(sc)) |-> <<>>],
   ord |-> <<>>,
   log |-> <<>>,
   sym |-> TRUE,
   fault |-> ""]

----------------------------------------------------------------------------
(* The state machine *)

\* Listener entries deleted during the call are gone when it returns.
Live(ls) == SelectSeq(ls, LAMBDA l : l.live)
Settled(p) == [id \in DOMAIN p |-> [n \in PropNames |-> [p[id][n] EXCEPT !.ls = Live(@)]]]

World ==
  [P |-> P, S |-> S, color |-> color, g |-> svgs, ord |-> Order(scn),
   log |-> <<>>, sym |-> TRUE, fault |-> ""]

\* The state a top-level call leaves behind.  A call that throws leaves what
\* it had written until then.
Commit(w) ==
  /\ P' = Settled(w.P)
  /\ S' = w.S
  /\ color' = w.color
  /\ svgs' = w.g
  /\ scn' = scn

Ents == Range(Order(scn))

\* The number of regions on the page.
Regions ==
  Cardinality({x \in Ents \X (1..(1 + MaxExtraRegions)) : x[2] \in DOMAIN svgs[x[1]]})

Init ==
  \E sc \in Scenarios :
    \E g0 \in [Range(Order(sc)) -> Placements(sc)] :
      LET w == load(Empty(sc), Order(sc), g0, 1)
      IN /\ scn = sc
         /\ svgs = w.g
         /\ P = Settled(w.P)
         /\ S = w.S
         /\ color = w.color

\* A top-level call and its arguments.
Call(name, id, i, r, rule, v) ==
  [name |-> name, id |-> id, i |-> i, r |-> r, rule |-> rule, v |-> v]

\* Whether the call can be made in the current state.
Guard(c) ==
  CASE c.name = "move" -> c.i \in DOMAIN svgs[c.id] /\ c.r # svgs[c.id][c.i]
    [] c.name = "add_box" ->
         Type(c.id) = "class" /\ Regions < Cardinality(Ents) + MaxExtraRegions
    [] c.name = "recalculate" -> TRUE
    [] c.name = "install" -> Key(c.id, c.rule) \notin DOMAIN S
    [] c.name = "set_units" ->
         Type(c.id) = "class" /\ c.v # get_property(World, c.id, "units", 0)
    [] OTHER -> FALSE

\* The world when the call returns (or has thrown), its log included.
Run(c) ==
  CASE c.name = "move" ->
         recalculate_containment([World EXCEPT !.g[c.id][c.i] = c.r], c.id)
    [] c.name = "add_box" -> add_box(World, c.id, <<c.r>>)
    [] c.name = "recalculate" -> recalculate_containment(World, c.id)
    [] c.name = "install" -> install(World, c.id, c.rule)
    [] c.name = "set_units" -> set_units(World, c.id, c.v)
    [] OTHER -> World

Do(c) == Guard(c) /\ Commit(Run(c))

\* A drag or a resize of one region: the handler writes the dimensions and
\* calls onmove, which is recalculate_containment(this.id).
Move(id, i, r) == Do(Call("move", id, i, r, "", 0))

\* add_box called again for a registered box: one more region (the page does
\* so for its classes).
AddRegion(id, r) == Do(Call("add_box", id, 0, r, "", 0))

\* recalculate_containment(id) with no geometry change.
Recalculate(id) == Do(Call("recalculate", id, 0, Outer, "", 0))

\* subscribers.<rule>(box) for a rule the page installs after add_box
\* (subscribers.count_once on the two track requirements), as a call of its
\* own: it may find the box's relation already filled.
Install(id, rule) == Do(Call("install", id, 0, Outer, rule, 0))

\* A write of `units` on a class.
SetUnits(id, v) == Do(Call("set_units", id, 0, Outer, "", v))

Next ==
  \/ \E id \in Ents, i \in 1..(1 + MaxExtraRegions), r \in Placements(scn) : Move(id, i, r)
  \/ \E id \in Ents, r \in Placements(scn) : AddRegion(id, r)
  \/ \E id \in Ents : Recalculate(id)
  \/ \E id \in Ents : \E rule \in PostRules(id) : Install(id, rule)
  \/ \E id \in Ents, v \in UnitValues : SetUnits(id, v)

Spec == Init /\ [][Next]_vars

\* Every call that can be made in the current state.
Calls ==
  {c \in {Call("move", id, i, r, "", 0) :
            id \in Ents, i \in 1..(1 + MaxExtraRegions), r \in Placements(scn)}
         \cup {Call("add_box", id, 0, r, "", 0) : id \in Ents, r \in Placements(scn)}
         \cup {Call("recalculate", id, 0, Outer, "", 0) : id \in Ents}
         \cup {Call("install", id, 0, Outer, rule, 0) : id \in Ents, rule \in RelRules}
         \cup {Call("set_units", id, 0, Outer, "", v) : id \in Ents, v \in UnitValues} :
     (c.name = "install" => c.rule \in PostRules(c.id)) /\ Guard(c)}

\* The page with a class, a quarter, Transfer and MATH 147: a class can lie
\* in the quarter, in Transfer and in the other class.  None of these boxes
\* has a rule installed after add_box.
TakenInit ==
  \E g0 \in [Range(Order("taken")) -> Placements("taken")] :
    LET w == load(Empty("taken"), Order("taken"), g0, 1)
    IN /\ scn = "taken"
       /\ svgs = w.g
       /\ P = Settled(w.P)
       /\ S = w.S
       /\ color = w.color

TakenNext ==
  \/ \E id \in Ents, i \in 1..(1 + MaxExtraRegions), r \in Placements(scn) : Move(id, i, r)
  \/ \E id \in Ents, r \in Placements(scn) : AddRegion(id, r)
  \/ \E id \in Ents : Recalculate(id)

TakenSpec == TakenInit /\ [][TakenNext]_vars

\* The pages with a track requirement whose rules are installed right after
\* its add_box: CS Science Req with its two required classes, CS Science Req
\* with a class, a quarter and Transfer, and CS Math Electives Req with two
\* classes.
ReqScenarios == {"required", "scheduled", "electives"}

ReqInit ==
  \E sc \in ReqScenarios :
    \E g0 \in [Range(Order(sc)) -> Placements(sc)] :
      LET w == load(Empty(sc), Order(sc), g0, 1)
      IN /\ scn = sc
         /\ svgs = w.g
         /\ P = Settled(w.P)
         /\ S = w.S
         /\ color = w.color

ReqNext ==
  \/ \E id \in Ents, i \in 1..(1 + MaxExtraRegions), r \in Placements(scn) : Move(id, i, r)
  \/ \E id \in Ents, r \in Placements(scn) : AddRegion(id, r)
  \/ \E id \in Ents : Recalculate(id)

ReqSpec == ReqInit /\ [][ReqNext]_vars

\* The pages that between them carry every rule of the model, with every
\* top-level call.
RuleScenarios == {"claims", "taken", "required", "scheduled", "electives"}

RuleInit ==
  \E sc \in RuleScenarios :
    \E g0 \in [Range(Order(sc)) -> Placements(sc)] :
      LET w == load(Empty(sc), Order(sc), g0, 1)
      IN /\ scn = sc
         /\ svgs = w.g
         /\ P = Settled(w.P)
         /\ S = w.S
         /\ color = w.color

\* Every kind of call, on the shapes the page starts with.
RuleNext ==
  \/ \E id \in Ents, r \in Placements(scn) : Move(id, 1, r)
  \/ \E id \in Ents : Recalculate(id)
  \/ \E id \in Ents : \E rule \in PostRules(id) : Install(id, rule)
  \/ \E id \in Ents, v \in UnitValues : SetUnits(id, v)

RuleSpec == RuleInit /\ [][RuleNext]_vars

----------------------------------------------------------------------------
(* The Box methods called directly (src/index.js, lines 561-629) *)

\* The box, properties, labels and callbacks of the direct calls.
ClientBox == Order(scn)[2]
ClientProps == {"probe", "total-units"}
ClientLabels(prop) == IF prop = "probe" THEN {"first", "second"} ELSE {"first"}
ClientCallbacks == {"f", "g"}
ClientTokens == {1, 2}
ClientDefaults == {{1}, {2}}
ClientErrorLabels == {"note", "units-max"}
ClientErrors == {Msg("note %d", 1), Msg("note %d", 2)}

\* A direct call of a Box method and its arguments.
StoreCall(name, id, prop, label, v) ==
  [name |-> name, id |-> id, prop |-> prop, label |-> label, v |-> v]

\* box.set_property("probe", () => new Set(), s => { s.value.add(v) }, v) and
\* box.set_property("total-units", () => 0, _ => {})
client_set(w, id, prop, v) ==
  IF prop = "probe"
  THEN set_property(w, id, prop, {}, [k |-> "set-add", v |-> v], v)
  ELSE set_property(w, id, prop, 0, [k |-> "none"], <<>>)

\* The world when the direct call returns (or has thrown).
StoreRun(c) ==
  CASE c.name = "get" -> Ensure(World, c.id, c.prop)
    [] c.name = "get_strict" -> get_property_strict(World, c.id, c.prop)
    [] c.name = "set" -> client_set(World, c.id, c.prop, c.v)
    [] c.name = "subscribe" ->
         subscribe(World, c.id, c.prop, c.label, Cb("probe", c.id, c.v, c.prop))
    [] c.name = "unsubscribe" -> unsubscribe(World, c.id, c.prop, c.label)
    [] c.name = "set_error" -> set_error(World, c.id, c.label, c.v)
    [] c.name = "clear_error" -> clear_error(World, c.id, c.label)
    [] OTHER -> World

StoreDo(c) == Commit(StoreRun(c))

\* box.get_property(prop, () => dflt)
Get(id, prop, dflt) == StoreDo(StoreCall("get", id, prop, "", dflt))

\* box.get_property(prop)
GetStrict(id, prop) == StoreDo(StoreCall("get_strict", id, prop, "", 0))

\* box.set_property(prop, initializer, update, delta)
SetProperty(id, prop, v) == StoreDo(StoreCall("set", id, prop, "", v))

\* box.subscribe(prop, label, callback)
Subscribe(id, prop, label, f) == StoreDo(StoreCall("subscribe", id, prop, label, f))

\* box.unsubscribe(prop, label)
Unsubscribe(id, prop, label) == StoreDo(StoreCall("unsubscribe", id, prop, label, 0))

\* box.set_error(label, error)
SetError(id, label, error) == StoreDo(StoreCall("set_error", id, "errors", label, error))

\* box.clear_error(label)
ClearError(id, label) == StoreDo(StoreCall("clear_error", id, "errors", label, 0))

\* The page as loaded with each class inside the other boxes.
StoreInit ==
  \E sc \in Scenarios :
    LET g0 == [id \in Range(Order(sc)) |-> IF Type(id) = "class" THEN Inner ELSE Outer]
        w == load(Empty(sc), Order(sc), g0, 1)
    IN /\ scn = sc
       /\ svgs = w.g
       /\ P = Settled(w.P)
       /\ S = w.S
       /\ color = w.color

StoreNext ==
  \/ \E prop \in ClientProps, dflt \in ClientDefaults : Get(ClientBox, prop, dflt)
  \/ \E prop \in ClientProps : GetStrict(ClientBox, prop)
  \/ \E prop \in ClientProps, v \in ClientTokens : SetProperty(ClientBox, prop, v)
  \/ \E prop \in ClientProps : \E label \in ClientLabels(prop), f \in ClientCallbacks :
       Subscribe(ClientBox, prop, label, f)
  \/ \E prop \in ClientProps : \E label \in ClientLabels(prop) :
       Unsubscribe(ClientBox, prop, label)
  \/ \E label \in ClientErrorLabels, error \in ClientErrors :
       SetError(ClientBox, label, error)
  \/ \E label \in ClientErrorLabels : ClearError(ClientBox, label)

StoreSpec == StoreInit /\ [][StoreNext]_vars

\* Callbacks of a client that change the listeners of the property they
\* listen to: one subscribes a callback under the label "third", one
\* unsubscribes the label "second".
FanProp == "probe"
FanLabels == {"first", "second"}
FanKinds == {"probe", "subscribes", "unsubscribes"}
FanCb(kind, id) ==
  CASE kind = "subscribes" -> Cb("subscribes", id, "third", FanProp)
    [] kind = "unsubscribes" -> Cb("unsubscribes", id, "second", FanProp)
    [] OTHER -> Cb("probe", id, "f", FanProp)

\* The world when a call of the client returns.
FanRun(c) ==
  CASE c.name = "set" -> client_set(World, c.id, FanProp, c.v)
    [] c.name = "subscribe" -> subscribe(World, c.id, FanProp, c.label, FanCb(c.v, c.id))
    [] c.name = "unsubscribe" -> unsubscribe(World, c.id, FanProp, c.label)
    [] OTHER -> World

FanSet(id) == Commit(FanRun(StoreCall("set", id, FanProp, "", 1)))
FanSubscribe(id, label, kind) == Commit(FanRun(StoreCall("subscribe", id, FanProp, label, kind)))
FanUnsubscribe(id, label) ==
  /\ P[id][FanProp].ex
  /\ Commit(FanRun(StoreCall("unsubscribe", id, FanProp, label, "")))

\* The page with the track requirements, any placement, and a client of
\* one box's property beside the moves of the boxes.
FanInit ==
  \E g0 \in [Range(Order("claims")) -> Placements("claims")] :
    LET w == load(Empty("claims"), Order("claims"), g0, 1)
    IN /\ scn = "claims"
       /\ svgs = w.g
       /\ P = Settled(w.P)
       /\ S = w.S
       /\ color = w.color

FanNext ==
  \/ FanSet(ClientBox)
  \/ \E label \in FanLabels, kind \in FanKinds : FanSubscribe(ClientBox, label, kind)
  \/ \E label \in FanLabels \cup {"third"} : FanUnsubscribe(ClientBox, label)
  \/ \E id \in Ents, r \in Placements(scn) : Move(id, 1, r)

FanSpec == FanInit /\ [][FanNext]_vars

\* Every direct call, by method.
GetCalls ==
  {StoreCall("get", ClientBox, prop, "", dflt) : prop \in ClientProps, dflt \in ClientDefaults}
GetStrictCalls == {StoreCall("get_strict", ClientBox, prop, "", 0) : prop \in ClientProps}
SetCalls ==
  {StoreCall("set", ClientBox, prop, "", v) : prop \in ClientProps, v \in ClientTokens}
SubscribeCalls ==
  {StoreCall("subscribe", ClientBox, x[1], x[2], x[3]) :
     x \in {y \in ClientProps \X {"first", "second"} \X ClientCallbacks :
              y[2] \in ClientLabels(y[1])}}
UnsubscribeCalls ==
  {StoreCall("unsubscribe", ClientBox, x[1], x[2], 0) :
     x \in {y \in ClientProps \X {"first", "second"} : y[2] \in ClientLabels(y[1])}}
SetErrorCalls ==
  {StoreCall("set_error", ClientBox, "errors", label, error) :
     label \in ClientErrorLabels, error \in ClientErrors}
ClearErrorCalls ==
  {StoreCall("clear_error", ClientBox, "errors", label, 0) : label \in ClientErrorLabels}

----------------------------------------------------------------------------
(* Properties *)

parents(id) == P[id]["parents"].val
children(id) == P[id]["children"].val

\* No call throws.
NoFault == \A c \in Calls : Run(c).fault = ""

\* The relation map of a box in a world, and a count with 0 for absent.
RelationOf(w, id, field) == w.P[id][field].val
CountIn(w, id, field, r) == MapGet0(w.P[id][field].val, r)

Fields == {"parents", "children"}
Mirror(field) == IF field = "parents" THEN "children" ELSE "parents"

\* How many entries of a log satisfy T.
Count(l, T(_)) == Cardinality({i \in DOMAIN l : T(l[i])})

Recalculations == {c \in Calls : c.name \in {"move", "add_box", "recalculate"}}

\* C1. Symmetry: in every settled state, for all boxes A and B, B is in
\* A.children exactly when A is in B.parents, and then with the same count.
Symmetry ==
  \A a \in Ents, b \in Ents :
    /\ (b \in DOMAIN children(a)) <=> (a \in DOMAIN parents(b))
    /\ b \in DOMAIN children(a) => children(a)[b] = parents(b)[a]

\* A pair related with multiplicity 2, stored on both sides.
SymmetryWitness ==
  \E a \in Ents, b \in Ents :
    /\ b \in DOMAIN children(a) /\ children(a)[b] = 2
    /\ a \in DOMAIN parents(b) /\ parents(b)[a] = 2

\* Region p strictly contains region c on both axes.
StrictlyContains(p, c) == p[1] < c[1] /\ p[2] < c[2] /\ p[3] > c[3] /\ p[4] > c[4]

\* C2. Resolver correctness: in every settled state the stored count
\* A.children[B] (0 when absent) is the number of pairs of a region of A and
\* a region of B where the first strictly contains the second.
ResolverCorrect ==
  \A a \in Ents, b \in Ents :
    a # b =>
      MapGet0(children(a), b) =
        Cardinality({ij \in (DOMAIN svgs[a]) \X (DOMAIN svgs[b]) :
                       StrictlyContains(svgs[a][ij[1]], svgs[b][ij[2]])})

\* A region that touches the edge of another box's region and is not counted,
\* beside a region of a third box that is.
ResolverWitness ==
  \E a \in Ents, b \in Ents, c \in Ents :
    /\ Outer \in Range(svgs[a]) /\ Touch \in Range(svgs[b])
    /\ MapGet0(children(a), b) = 0
    /\ MapGet0(children(a), c) >= 1

\* The log of a recalculation that found nothing changed.
NothingChanged(id) ==
  <<Event("recalculate", id, "", "", [parents |-> <<>>, children |-> <<>>])>>

\* C3. Idempotence: from every settled state, recalculate_containment of any
\* box, called twice, finds no changed parent and no changed child either
\* time: no set_property is called, no listener runs, and the state is as it
\* was.
Idempotent ==
  \A id \in Ents :
    LET w1 == recalculate_containment(World, id)
        w2 == recalculate_containment([w1 EXCEPT !.P = Settled(@), !.log = <<>>], id)
    IN /\ w1.log = NothingChanged(id)
       /\ w2.log = NothingChanged(id)
       /\ w2.fault = ""
       /\ Settled(w2.P) = P /\ w2.S = S /\ w2.color = color

\* A box with a parent of multiplicity 2 whose recalculation changes nothing.
IdempotentWitness ==
  \E id \in Ents, r \in Ents :
    /\ r \in DOMAIN parents(id) /\ parents(id)[r] = 2
    /\ recalculate_containment(World, id).log = NothingChanged(id)

\* The calls of a combinator's hooks and its subscriptions of the tracked
\* property for one relative, in a log.
Enters(l, k, r) ==
  Count(l, LAMBDA ev : ev.e = "enter" /\ ev.box = k[1] /\ ev.rule = k[2] /\ ev.rel = r)
Exits(l, k, r) ==
  Count(l, LAMBDA ev : ev.e = "exit" /\ ev.box = k[1] /\ ev.rule = k[2] /\ ev.rel = r)
Subscriptions(l, k, r) ==
  Count(l, LAMBDA ev : ev.e = "subscribe" /\ ev.box = r /\ ev.rule = k[2] \o k[1]
                        /\ ev.rel = Property(k[2]))

\* C4. Enter/exit pairing, step by step: for an installed combinator with
\* hooks on box X and any other box R, a call that takes R's count from 0 to
\* a positive number runs the enter hook once and subscribes the tracked
\* property once, a call that takes it from a positive number to 0 runs the
\* exit hook once, and every other call runs neither hook and does not
\* subscribe.
EnterExitPairing ==
  \A c \in Calls :
    LET w == Run(c)
    IN \A k \in DOMAIN S :
         HasHooks(k[2]) =>
           \A r \in Ents \ {k[1]} :
             LET before == CountIn(World, k[1], Relation(k[2]), r)
                 after == CountIn(w, k[1], Relation(k[2]), r)
                 enters == IF before = 0 /\ after > 0 THEN 1 ELSE 0
                 exits == IF before > 0 /\ after = 0 THEN 1 ELSE 0
             IN /\ Enters(w.log, k, r) = enters
                /\ Exits(w.log, k, r) = exits
                /\ Subscriptions(w.log, k, r) = enters

\* A call that takes a relative of a combinator with hooks from 0 to 2 in
\* one step, with one call of the enter hook.
EnterExitWitness ==
  \E c \in Calls :
    LET w == Run(c)
    IN \E k \in DOMAIN S, r \in Ents :
         /\ HasHooks(k[2]) /\ r # k[1]
         /\ CountIn(World, k[1], Relation(k[2]), r) = 0
         /\ CountIn(w, k[1], Relation(k[2]), r) = 2
         /\ Enters(w.log, k, r) = 1

\* The brute-force projection of a combinator: filter_map over the relatives
\* now present in the box's relation, without the ones it maps to null.
FromScratch(k) ==
  LET present == DOMAIN P[k[1]][Relation(k[2])].val
      kept == {r \in present : filter_map(World, k[2], k[1], r).some}
  IN [r \in kept |-> filter_map(World, k[2], k[1], r).v]

\* C5. Combinator consistency: in every settled state, the state of every
\* installed combinator is the map from the relatives now present in its
\* box's relation, and not projected to null, to their projection.
CombinatorConsistent == \A k \in DOMAIN S : S[k] = FromScratch(k)

\* A combinator holding a projection, and a combinator with a present
\* relative that is projected to null.
CombinatorWitness ==
  \E k \in DOMAIN S, j \in DOMAIN S :
    /\ DOMAIN S[k] # {}
    /\ Property(j[2]) # ""
    /\ DOMAIN P[j[1]][Relation(j[2])].val \ DOMAIN S[j] # {}

\* The listeners of a world's property under a label.
Listening(w, id, prop, label) ==
  \E i \in DOMAIN w.P[id][prop].ls :
    w.P[id][prop].ls[i].live /\ w.P[id][prop].ls[i].label = label

\* C6. No dangling subscriptions: in every settled state, for every rule
\* with a tracked property and every box X, a box that has a listener under
\* the rule's label + X on the tracked property is present in X's relation.
NoDanglingSubscription ==
  \A x \in Ents, label \in RelRules :
    Property(label) # "" =>
      \A r \in Ents :
        Listening(World, r, Property(label), label \o x) =>
          r \in DOMAIN P[x][Relation(label)].val

\* A call in which a relative leaves a relation and its listener, present
\* before the call, is unsubscribed and gone after it.
NoDanglingWitness ==
  \E c \in Calls :
    LET w == Run(c)
    IN \E i \in DOMAIN w.log :
         /\ w.log[i].e = "unsubscribe"
         /\ Listening(World, w.log[i].box, w.log[i].rel, w.log[i].rule)
         /\ ~Listening([w EXCEPT !.P = Settled(@)], w.log[i].box, w.log[i].rel, w.log[i].rule)

\* C7. Installation: installing a combinator on a box whose relation already
\* holds relatives calls the enter hook once for each of them (when the rule
\* has hooks), subscribes the tracked property once (when it has one), and
\* projects the relative once.
InstallRunsEnterPath ==
  \A c \in Calls :
    c.name = "install" /\ c.rule \in RelRules =>
      LET w == Run(c)
          k == Key(c.id, c.rule)
      IN \A r \in DOMAIN P[c.id][Relation(c.rule)].val :
           /\ HasHooks(c.rule) => Enters(w.log, k, r) = 1
           /\ Property(c.rule) # "" => Subscriptions(w.log, k, r) = 1
           /\ Count(w.log, LAMBDA ev : ev.e = "project" /\ ev.box = c.id
                                        /\ ev.rule = c.rule /\ ev.rel = r) >= 1

\* The pairs of a delivered delta under one key.
Delivered(d, key) == {i \in DOMAIN d : d[i][1] = key}

\* The entries of a log that are set_property calls on a relation field of a
\* box, and the listeners they invoke.
SetsOn(l, id, field) ==
  {i \in DOMAIN l : l[i].e = "set" /\ l[i].box = id /\ l[i].rel = field}
ListenersOn(l, id, field) ==
  {i \in DOMAIN l : l[i].e = "listener" /\ l[i].box = id /\ l[i].rel = field}

DeliversNewCount ==
  \A c \in Recalculations :
    LET w == Run(c)
    IN \A i \in DOMAIN w.log :
         w.log[i].e = "listener" /\ w.log[i].rel \in Fields =>
           \A j \in DOMAIN w.log[i].d :
             LET r == w.log[i].d[j][1]
                 passed == w.log[i].d[j][2]
             IN /\ passed = CountIn(w, w.log[i].box, w.log[i].rel, r)
                /\ passed = 0 <=> r \notin DOMAIN RelationOf(w, w.log[i].box, w.log[i].rel)

\* C10. Stored multiplicities are positive: in every settled state, every
\* entry of every box's parents and children maps is an integer >= 1.
PositiveCounts ==
  \A id \in Ents, field \in Fields :
    \A r \in DOMAIN P[id][field].val :
      P[id][field].val[r] \in Nat /\ P[id][field].val[r] >= 1

\* A call that takes the count of a pair to 0, after which the entry is
\* stored on neither side.
PositiveCountsWitness ==
  \E c \in Calls :
    LET w == Run(c)
    IN \E a \in Ents, b \in Ents :
         /\ CountIn(World, a, "children", b) >= 1
         /\ b \notin DOMAIN RelationOf(w, a, "children")
         /\ a \notin DOMAIN RelationOf(w, b, "parents")

\* The property a direct call is about, before the call.
Before(c) == P[c.id][c.prop]

\* A returned world taken as the state the next call starts from.
Returned(w) == [w EXCEPT !.P = Settled(@), !.log = <<>>]

\* What a direct set_property leaves as value, given the value it found.
Written(c, found) == IF c.prop = "probe" THEN found \cup {c.v} ELSE found

\* The initializer and the delta of a direct set_property.
Initial(c) == IF c.prop = "probe" THEN {} ELSE 0
Supplied(c) == IF c.prop = "probe" THEN c.v ELSE <<>>

\* C11. get_property with a default on a property that was never written
\* returns the default and persists nothing: no listener is invoked, no
\* value or listener of any box changes, a later get_property returns its
\* own default, and a later set_property materializes the value through its
\* initializer.
GetPersistsNothing ==
  \A c \in GetCalls :
    ~Before(c).has =>
      LET w == StoreRun(c)
      IN /\ get_property(World, c.id, c.prop, c.v) = c.v
         /\ w.fault = "" /\ w.log = <<>>
         /\ \A id \in Ents, prop \in PropNames :
              /\ w.P[id][prop].has = P[id][prop].has
              /\ w.P[id][prop].val = P[id][prop].val
              /\ w.P[id][prop].ls = P[id][prop].ls
         /\ \A g \in ClientDefaults : get_property(w, c.id, c.prop, g) = g
         /\ \A v \in ClientTokens :
              client_set(Returned(w), c.id, c.prop, v).P[c.id][c.prop].val =
                Written([c EXCEPT !.v = v], Initial(c))

\* A property that has been subscribed to and read but never written.
GetPersistsNothingWitness ==
  \E c \in GetCalls :
    /\ ~Before(c).has /\ Before(c).ex
    /\ Len(Before(c).ls) = 2
    /\ get_property(World, c.id, c.prop, c.v) = c.v

\* C12. get_property without a default faults exactly when the property has
\* no value, also when the property has listeners; it faults with the
\* message of the default default_value.
StrictGetFaults ==
  \A c \in GetStrictCalls :
    /\ ~Before(c).has =>
         StoreRun(c).fault = "Tried to access uninitialized property: " \o c.prop
    /\ Before(c).has => StoreRun(c).fault = ""

\* A property with a listener and no value, whose read without default
\* faults.
StrictGetWitness ==
  \E c \in GetStrictCalls :
    /\ ~Before(c).has
    /\ Before(c).ls # <<>>
    /\ StoreRun(c).fault # ""

\* The positions in a log of the calls of the listeners of a property, of
\* the return that belongs to a call of a listener, and of the first return
\* of a set_property on a property after a position.
Listeners(l, id, prop) ==
  {i \in DOMAIN l : l[i].e = "listener" /\ l[i].box = id /\ l[i].rel = prop}
Dones(l, i) == {k \in DOMAIN l : l[k].e = "done" /\ l[k].d = i}
Returns(l, s) ==
  {r \in DOMAIN l : r > s /\ l[r].e = "return" /\ l[r].box = l[s].box /\ l[r].rel = l[s].rel}

\* C13. A direct set_property materializes the value through the
\* initializer when the property is unwritten, applies the update, and then
\* calls each listener of the property exactly once with the supplied
\* delta; every call it started, at any depth, has returned when it returns.
SetNotifiesOnce ==
  \A c \in SetCalls :
    LET w == StoreRun(c)
        l == w.log
        found == IF Before(c).has THEN Before(c).val ELSE Initial(c)
    IN /\ w.fault = ""
       /\ w.P[c.id][c.prop].has /\ w.P[c.id][c.prop].val = Written(c, found)
       /\ Cardinality(Listeners(l, c.id, c.prop)) = Len(Before(c).ls)
       /\ \A j \in DOMAIN Before(c).ls :
            Cardinality({i \in Listeners(l, c.id, c.prop) :
                           l[i].rule = Before(c).ls[j].label /\ l[i].d = Supplied(c)}) = 1
       /\ l[1].e = "set" /\ l[1].box = c.id /\ l[1].rel = c.prop
       /\ Returns(l, 1) = {Len(l)}
       /\ \A i \in DOMAIN l :
            /\ l[i].e = "listener" => Cardinality(Dones(l, i)) = 1
            /\ l[i].e = "set" => Returns(l, i) # {}

\* A set_property on a property with two listeners, one of which writes
\* another property that has a listener of its own.
SetNotifiesWitness ==
  \E c \in SetCalls :
    /\ Len(Before(c).ls) = 2
    /\ \E i \in DOMAIN StoreRun(c).log :
         /\ StoreRun(c).log[i].e = "listener"
         /\ StoreRun(c).log[i].rel = "errors"

\* The entries of a listener list under a label, and the list without them.
Under(ls, label) == {i \in DOMAIN ls : ls[i].label = label}
Without(ls, label) == SelectSeq(ls, LAMBDA x : x.label # label)

\* C14. Last-write-wins subscription: after subscribe(p, L, g) the property
\* has one entry under L, which holds g, at the place of the entry it
\* replaces or at the end when L is new; the entries under other labels are
\* as they were; a subscription of the callback already installed under L
\* changes nothing; and a later set_property calls g once under L and no
\* other callback under L.
LastWriteWins ==
  \A c \in SubscribeCalls :
    LET w == StoreRun(c)
        old == Before(c).ls
        new == w.P[c.id][c.prop].ls
        entry == [label |-> c.label, cb |-> Cb("probe", c.id, c.v, c.prop), live |-> TRUE]
        l == client_set(Returned(w), c.id, c.prop, 1).log
    IN /\ w.fault = ""
       /\ Cardinality(Under(new, c.label)) = 1
       /\ \A i \in Under(new, c.label) : new[i] = entry
       /\ Without(new, c.label) = Without(old, c.label)
       /\ Under(old, c.label) # {} => Under(new, c.label) = Under(old, c.label)
       /\ Under(old, c.label) = {} => new = Append(old, entry)
       /\ (\E i \in Under(old, c.label) : old[i] = entry) => new = old
       /\ \A id \in Ents, prop \in PropNames :
            /\ w.P[id][prop].has = P[id][prop].has
            /\ w.P[id][prop].val = P[id][prop].val
       /\ Cardinality({i \in Listeners(l, c.id, c.prop) : l[i].rule = c.label}) = 1
       /\ \A i \in Listeners(l, c.id, c.prop) :
            l[i].rule = c.label =>
              /\ l[i + 1].e = "probe" /\ l[i + 1].rule = c.v
              /\ l[i + 2].e = "done"

\* A subscription that replaces another callback under its label, first of
\* two labels.
LastWriteWinsWitness ==
  \E c \in SubscribeCalls :
    /\ Len(Before(c).ls) = 2
    /\ Before(c).ls[1].label = c.label
    /\ Before(c).ls[1].cb.rule # c.v
    /\ Before(c).ls[2].label # c.label

\* C15. unsubscribe(p, L) with no callback installed under L, also on a
\* property that has never been read, written or subscribed, does not fault
\* and leaves every value and every listener as it was.
UnsubscribeAbsentIsNoOp ==
  \A c \in UnsubscribeCalls :
    Under(Before(c).ls, c.label) = {} =>
      LET w == StoreRun(c)
      IN /\ w.fault = ""
         /\ \A id \in Ents, prop \in PropNames :
              /\ w.P[id][prop].has = P[id][prop].has
              /\ w.P[id][prop].val = P[id][prop].val
              /\ Live(w.P[id][prop].ls) = P[id][prop].ls

\* The calls of the listeners of one set_property, whose entry in the log is
\* at s: the ones between s and its return.
Direct(l, s) ==
  {i \in Listeners(l, l[s].box, l[s].rel) : i > s /\ \A r \in Returns(l, s) : i < r}

\* The labels of a listener list, in order.
Labels(ls) == [i \in DOMAIN ls |-> ls[i].label]

\* The labels called at a set of log positions, in log order.
RECURSIVE Called(_, _)
Called(l, is) ==
  IF is = {} THEN <<>>
  ELSE LET i == CHOOSE x \in is : \A y \in is : x <= y
       IN <<l[i].rule>> \o Called(l, is \ {i})

\* In a log: the listeners of every set_property are called in the order of
\* the entries of the property's listener list, and each has returned, with
\* every set_property it started, before the next one is called.
DepthFirst(l) ==
  \A s \in DOMAIN l :
    l[s].e = "set" =>
      /\ Cardinality(Returns(l, s)) = 1
      /\ Called(l, Direct(l, s)) = Labels(P[l[s].box][l[s].rel].ls)
      /\ \A i \in Direct(l, s) :
           \A k \in Dones(l, i) :
             /\ \A r \in Returns(l, s) : k < r
             /\ \A j \in Direct(l, s) : j > i => k < j
             /\ \A t \in (i + 1)..(k - 1) :
                  l[t].e = "set" => \A r \in Returns(l, t) : r < k

\* C16. Listener ordering: in a direct set_property, set_error or
\* clear_error, the listeners of every set_property (the nested ones
\* included) are called in the order of their entries in the property's
\* listener list, which is the order in which the labels were inserted, and
\* each has returned, with every set_property it started, before the next
\* one is called.
ListenersInOrder ==
  /\ \A c \in SetCalls : DepthFirst(StoreRun(c).log)
  /\ \A c \in SetErrorCalls : DepthFirst(StoreRun(c).log)
  /\ \A c \in ClearErrorCalls : DepthFirst(StoreRun(c).log)

\* A set_property whose first listener writes another property, which has a
\* listener of its own, and whose second listener is called after that.
ListenersInOrderWitness ==
  \E c \in SetCalls :
    LET l == StoreRun(c).log
    IN /\ Len(Before(c).ls) = 2
       /\ \E i \in Direct(l, 1), j \in Direct(l, 1) :
            /\ i < j
            /\ \E t \in (i + 1)..(j - 1) : l[t].e = "listener" /\ l[t].rel = "errors"

\* The errors map of a box in a world, empty while unwritten.
Errors(w, id) == IF w.P[id]["errors"].has THEN w.P[id]["errors"].val ELSE <<>>

\* C17. Error slots are independent: set_error(l, m) leaves errors[l] = m,
\* clear_error(l) leaves l absent, and every other label is present after the
\* call exactly when it was before, with the message it had.
ErrorSlotsIndependent ==
  /\ \A c \in SetErrorCalls :
       LET w == StoreRun(c)
       IN /\ w.fault = ""
          /\ c.label \in DOMAIN Errors(w, c.id) /\ Errors(w, c.id)[c.label] = c.v
          /\ MapDel(Errors(w, c.id), c.label) = MapDel(Errors(World, c.id), c.label)
  /\ \A c \in ClearErrorCalls :
       LET w == StoreRun(c)
       IN /\ w.fault = ""
          /\ w.P[c.id]["errors"].has
          /\ c.label \notin DOMAIN Errors(w, c.id)
          /\ MapDel(Errors(w, c.id), c.label) = MapDel(Errors(World, c.id), c.label)

\* A set_error that overwrites a message while another label is set, and a
\* clear_error of a label that is absent.
ErrorSlotsWitness ==
  /\ \E c \in SetErrorCalls :
       /\ c.label \in DOMAIN Errors(World, c.id)
       /\ Errors(World, c.id)[c.label] # c.v
       /\ DOMAIN Errors(World, c.id) \ {c.label} # {}
  /\ \E c \in ClearErrorCalls : c.label \notin DOMAIN Errors(World, c.id)

\* The total-units of a box as the unit rules read it: 0 while unwritten.
TotalUnits(box) == get_property(World, box, "total-units", 0)

\* The current children of a box that expose a units value.
UnitChildren(box) == {r \in DOMAIN children(box) : P[r]["units"].has}

\* The units of a set of boxes added up, each box once.
RECURSIVE UnitsOf(_)
UnitsOf(rs) ==
  IF rs = {} THEN 0
  ELSE LET r == CHOOSE x \in rs : TRUE IN P[r]["units"].val + UnitsOf(rs \ {r})

\* The boxes carrying a rule of subscribe_relation.
Carrying(label) == {box \in Ents : Key(box, label) \in DOMAIN S}

\* Whether the box's own script writes total-units (the quarters' does).
WritesTotal(box) == \E i \in DOMAIN Script(box) : Script(box)[i].k = "total-units"

Bounded ==
  {box \in Carrying("total-units") :
     \E i \in DOMAIN P[box]["total-units"].ls : P[box]["total-units"].ls[i].label = "unit-max"}

\* C19. On every box with the unit_max rule of limit n and the units rule,
\* the error units-max is present exactly when total-units > n, and its
\* message is ">n units"; while the box has no unit-bearing child,
\* total-units is 0 and the error is absent.
UnitMaxError ==
  \A box \in Bounded :
    /\ "units-max" \in DOMAIN Errors(World, box) <=> TotalUnits(box) > unit_limit(box)
    /\ "units-max" \in DOMAIN Errors(World, box)
         => Errors(World, box)["units-max"] = Msg(">%d units", unit_limit(box))
    /\ UnitChildren(box) = {}
         => TotalUnits(box) = 0 /\ "units-max" \notin DOMAIN Errors(World, box)

\* A box whose children pushed its total above the limit, with the error
\* set, and a recalculation that removes them: the total is back to 0 and
\* the error is cleared.
UnitMaxWitness ==
  \E box \in Bounded :
    /\ TotalUnits(box) > unit_limit(box)
    /\ "units-max" \in DOMAIN Errors(World, box)
    /\ \E c \in Recalculations :
         LET w == Run(c)
         IN /\ DOMAIN w.P[box]["children"].val = {}
            /\ w.P[box]["total-units"].val = 0
            /\ "units-max" \notin DOMAIN Errors(w, box)

\* The current distinct parents of a box that are a quarter or Transfer.
Scheduled(rels) == {p \in DOMAIN rels : Type(p) = "quarter" \/ p = TRANSFER}

\* C20. On every box with the taken_at_most_once rule, the error
\* already-taken is present exactly when more than one of its current
\* distinct parents is a quarter or Transfer, and its message is
\* "<id> already taken".
TakenAtMostOnce ==
  \A box \in Carrying("taken-once") :
    /\ "already-taken" \in DOMAIN Errors(World, box)
         <=> Cardinality(Scheduled(parents(box))) > 1
    /\ "already-taken" \in DOMAIN Errors(World, box)
         => Errors(World, box)["already-taken"] = Msg("%s already taken", box)

\* A box without such a parent that gains two of them in a single
\* recalculation, which sets the error; and a box with two such parents and
\* a parent of another kind that loses one of the two in a recalculation,
\* which clears the error.
TakenAtMostOnceWitness ==
  /\ \E box \in Carrying("taken-once") :
       /\ Scheduled(parents(box)) = {}
       /\ "already-taken" \notin DOMAIN Errors(World, box)
       /\ \E c \in Recalculations :
            LET w == Run(c)
            IN /\ Cardinality(Scheduled(w.P[box]["parents"].val)) = 2
               /\ "already-taken" \in DOMAIN Errors(w, box)
  /\ \E box \in Carrying("taken-once") :
       /\ Cardinality(Scheduled(parents(box))) = 2
       /\ DOMAIN parents(box) \ Scheduled(parents(box)) # {}
       /\ "already-taken" \in DOMAIN Errors(World, box)
       /\ \E c \in Recalculations :
            LET w == Run(c)
            IN /\ Cardinality(Scheduled(w.P[box]["parents"].val)) = 1
               /\ "already-taken" \notin DOMAIN Errors(w, box)

\* The place of an id in the sorted order of ids.
Rank(id) == CHOOSE k \in DOMAIN IdOrder : IdOrder[k] = id

\* Whether a sequence lists exactly the ids of a set, in sorted order.
ListsSorted(seq, set) ==
  /\ Len(seq) = Cardinality(set)
  /\ Range(seq) = set
  /\ \A i, j \in DOMAIN seq : i < j => Rank(seq[i]) < Rank(seq[j])

\* The required ids absent from the current children of a box.
Absent(box) == required_set(box) \ DOMAIN children(box)

\* C21. On every box with the require_children rule, the error
\* required-children is present exactly when a required id is absent from
\* the box's current children, and its message lists exactly the absent ids
\* in sorted order.
RequiredChildren ==
  \A box \in Carrying("required-children") :
    /\ "required-children" \in DOMAIN Errors(World, box) <=> Absent(box) # {}
    /\ "required-children" \in DOMAIN Errors(World, box)
         => /\ Errors(World, box)["required-children"].t = "Missing (%s)"
            /\ ListsSorted(Errors(World, box)["required-children"].a, Absent(box))

\* The counted-by set of a box, empty while unwritten.
CountedBy(w, id) == get_property(w, id, "counted-by", {})

\* The boxes with the count_once rule that have a box among their children.
Claimants(id) == {x \in Carrying("count-children-once") : id \in DOMAIN children(x)}

Conflict(w, x) ==
  \E c \in DOMAIN w.P[x]["children"].val : Cardinality(CountedBy(w, c)) > 1
Flagged(w, x) == "count-children-once" \in DOMAIN Errors(w, x)

\* C23. On every box with the count_once rule, the error count-children-once
\* is present exactly when some current child of the box has a counted-by
\* set of more than one element; in particular this holds when every call
\* returns, whichever box's claim changed counted-by.
ClaimConflict ==
  \A x \in Carrying("count-children-once") : Flagged(World, x) <=> Conflict(World, x)

\* A box with the rule and a child that stays its child while another
\* claimant gains it in a recalculation of that claimant: when the call
\* returns the first box has the error, which it had not; and the reverse,
\* where the other claimant loses the child and the error is cleared.
ClaimConflictWitness ==
  \E x \in Carrying("count-children-once") :
    \E c \in Recalculations :
      /\ c.id \in Carrying("count-children-once") \ {x}
      /\ \E r \in DOMAIN children(x) \cap DOMAIN Run(c).P[x]["children"].val :
           \/ /\ ~Flagged(World, x) /\ Flagged(Run(c), x)
              /\ CountedBy(Run(c), r) = CountedBy(World, r) \cup {c.id}
           \/ /\ Flagged(World, x) /\ ~Flagged(Run(c), x)
              /\ CountedBy(Run(c), r) = CountedBy(World, r) \ {c.id}

\* The properties in the order the rules write them: a rule that listens to
\* a property writes only properties that come later.
PropRank(prop) ==
  CASE prop \in {"parents", "children", "units", "probe"} -> 0
    [] prop \in {"counted-by", "total-units"} -> 1
    [] OTHER -> 2

\* In a log: every set_property has returned and every listener called has
\* returned.
Terminated(l) ==
  /\ Cardinality({i \in DOMAIN l : l[i].e = "set"})
       = Cardinality({i \in DOMAIN l : l[i].e = "return"})
  /\ \A i \in DOMAIN l : l[i].e = "listener" => Cardinality(Dones(l, i)) = 1

\* In a log: every set_property made while a listener runs is on a property
\* that comes later than the one the listener is subscribed to.
Ranked(l) ==
  \A i \in DOMAIN l :
    l[i].e = "listener" =>
      \A k \in Dones(l, i) :
        \A t \in (i + 1)..(k - 1) :
          l[t].e = "set" => PropRank(l[t].rel) > PropRank(l[i].rel)

\* C24. Every top-level call (a recalculation, a write of units, an
\* installation) returns without a fault, with every set_property and
\* every listener of its cascade returned; the cascade is finite because a
\* listener only writes properties that come later in a fixed order.
CascadeTerminates ==
  \A c \in Calls :
    /\ Run(c).fault = ""
    /\ Terminated(Run(c).log)
    /\ Ranked(Run(c).log)

\* A cascade three levels deep: a listener of a relation, inside it a
\* listener of counted-by or total-units, inside that a write of errors.
CascadeWitness ==
  \E c \in Recalculations :
    \E i, j \in DOMAIN Run(c).log :
      /\ Run(c).log[i].e = "listener" /\ PropRank(Run(c).log[i].rel) = 0
      /\ Run(c).log[j].e = "listener" /\ PropRank(Run(c).log[j].rel) = 1
      /\ i < j
      /\ \A k \in Dones(Run(c).log, i) : j < k
      /\ \E u \in DOMAIN Run(c).log :
           /\ j < u
           /\ \A k \in Dones(Run(c).log, j) : u < k
           /\ Run(c).log[u].e = "set" /\ Run(c).log[u].rel = "errors"

\* The boxes whose count with x, as parent or as child, differs between two
\* worlds.
Recounted(v, w, x) ==
  {y \in Range(v.ord) \ {x} :
     \E field \in Fields : CountIn(v, x, field, y) # CountIn(w, x, field, y)}

\* C25. Delta-only frame: a recalculation of box X writes a relation field
\* of X only when some count of that field changed, and then changes no
\* entry whose count is the same; a box Y whose counts with X are unchanged
\* has neither map written and none of its relation listeners called; and
\* no entry between two boxes other than X is changed.
DeltaOnlyFrame ==
  \A c \in Recalculations :
    LET w == Run(c)
        x == c.id
    IN /\ \A field \in Fields :
            SetsOn(w.log, x, field) # {} =>
              \E r \in Ents : CountIn(World, x, field, r) # CountIn(w, x, field, r)
       /\ \A y \in Ents \ (Recounted(World, w, x) \cup {x}) :
            \A field \in Fields :
              /\ SetsOn(w.log, y, field) = {}
              /\ ListenersOn(w.log, y, field) = {}
              /\ w.P[y][field] = P[y][field]
       /\ \A y \in Recounted(World, w, x) :
            \A field \in Fields :
              CountIn(World, x, field, y) = CountIn(w, x, field, y) =>
                /\ SetsOn(w.log, y, Mirror(field)) = {}
                /\ ListenersOn(w.log, y, Mirror(field)) = {}
       /\ \A a \in Ents \ {x}, b \in Ents \ {x} :
            \A field \in Fields :
              /\ CountIn(w, a, field, b) = CountIn(World, a, field, b)
              /\ (b \in DOMAIN RelationOf(w, a, field))
                   <=> (b \in DOMAIN RelationOf(World, a, field))

\* A recalculation of a box with two relatives, one whose count changes and
\* one whose count stays and that has a listener on the mirrored field,
\* beside a relation between two other boxes.
DeltaOnlyWitness ==
  \E c \in Recalculations :
    LET w == Run(c)
        x == c.id
    IN \E r \in Recounted(World, w, x), y \in Ents \ (Recounted(World, w, x) \cup {x}) :
         /\ \E field \in Fields :
              /\ CountIn(World, x, field, y) > 0
              /\ Len(P[y][Mirror(field)].ls) > 0
         /\ \E a \in Ents \ {x}, b \in Ents \ {x} : CountIn(World, a, "children", b) > 0

\* The return of the set_property logged at s.
Ret(l, s) == CHOOSE r \in Returns(l, s) : \A q \in Returns(l, s) : r <= q

\* Whether r is in x's relation map when the log of call c has t entries.
\* A recalculation writes an entry of the recalculated box's map right
\* before it calls the relative's set_property, and an entry of the
\* relative's map inside that set_property.
PresentAt(c, w, t, x, rel, r) ==
  LET pre == r \in DOMAIN RelationOf(World, x, rel)
      post == r \in DOMAIN RelationOf(w, x, rel)
  IN IF pre = post THEN pre
     ELSE IF x = c.id
     THEN IF \E i \in 1..t : /\ w.log[i].e = "set" /\ w.log[i].box = r
                              /\ w.log[i].rel = Mirror(rel)
                              /\ Delivered(w.log[i].d, x) # {}
          THEN post ELSE pre
     ELSE IF \E i \in 1..(t - 1) : /\ w.log[i].e = "set" /\ w.log[i].box = x
                                    /\ w.log[i].rel = rel
                                    /\ Delivered(w.log[i].d, r) # {}
          THEN post ELSE pre

\* Whether a callback is subscribed on r's property under a label when the
\* log has t entries.
SubscribedAt(w, t, r, prop, label) ==
  LET evs == {i \in 1..t : /\ w.log[i].e \in {"subscribe", "unsubscribe"}
                           /\ w.log[i].box = r /\ w.log[i].rel = prop
                           /\ w.log[i].rule = label}
  IN IF evs = {} THEN Listening(World, r, prop, label)
     ELSE w.log[CHOOSE i \in evs : \A j \in evs : j <= i].e = "subscribe"

\* The projections of r by x's rule, and x's callbacks, that the log has
\* between the set_property at s and its return.
Projections(l, s, x, label) ==
  {p \in (s + 1)..(Ret(l, s) - 1) :
     l[p].e = "project" /\ l[p].box = x /\ l[p].rule = label /\ l[p].rel = l[s].box}
Responds(l, s, x, label) ==
  \E p \in Projections(l, s, x, label) :
    \E k \in (p + 1)..(Ret(l, s) - 1) :
      l[k].e = "callback" /\ l[k].box = x /\ l[k].rule = label

\* The set_property calls of a log on a property that some installed rule
\* of another box tracks, with that box and the rule: <<s, x, label>>.
TrackedSets(l) ==
  {t \in {i \in DOMAIN l : l[i].e = "set"} \X DOMAIN S :
     Property(t[2][2]) = l[t[1]].rel /\ t[2][1] # l[t[1]].box}

\* C26 as stated. While relative R is present in box X's relation, every
\* set_property on R's tracked property runs the projection of R and X's
\* callback before it returns.
TrackedWhilePresent ==
  \A c \in Calls :
    LET w == Run(c)
    IN \A t \in TrackedSets(w.log) :
         LET s == t[1]
             x == t[2][1]
             label == t[2][2]
             r == w.log[s].box
         IN /\ PresentAt(c, w, s, x, Relation(label), r)
            /\ PresentAt(c, w, Ret(w.log, s), x, Relation(label), r)
            => Responds(w.log, s, x, label)

\* C26. While X's handler is subscribed on R's tracked property (from the
\* enter of R to its exit), every set_property on that property runs the
\* projection of R and then X's callback before it returns, and when it is
\* the last one of the call the state holds R's projection, or no key for
\* R when the projection is null; while the handler is not subscribed, a
\* set_property on the property runs no projection of R for X.
TrackedWhileSubscribed ==
  \A c \in Calls :
    LET w == Run(c)
    IN \A t \in TrackedSets(w.log) :
         LET s == t[1]
             x == t[2][1]
             label == t[2][2]
             r == w.log[s].box
             before == SubscribedAt(w, s, r, Property(label), label \o x)
             after == SubscribedAt(w, Ret(w.log, s), r, Property(label), label \o x)
         IN /\ before /\ after =>
                 /\ Responds(w.log, s, x, label)
                 /\ (\A i \in DOMAIN w.log :
                       i > s /\ w.log[i].e = "set"
                         => w.log[i].box # r \/ w.log[i].rel # w.log[s].rel)
                      /\ Listening(w, r, Property(label), label \o x)
                    => /\ r \in DOMAIN w.S[Key(x, label)] <=> filter_map(w, label, x, r).some
                       /\ r \in DOMAIN w.S[Key(x, label)]
                            => w.S[Key(x, label)][r] = filter_map(w, label, x, r).v
            /\ ~before /\ ~after => Projections(w.log, s, x, label) = {}

\* A recalculation of one box in which a parent of another box R is written
\* and a third box, subscribed on R's parents all along, projects R and
\* runs its callback before that write returns.
TrackedWitness ==
  \E c \in Recalculations :
    LET w == Run(c)
    IN \E t \in TrackedSets(w.log) :
         LET s == t[1]
             x == t[2][1]
             label == t[2][2]
             r == w.log[s].box
         IN /\ x # c.id /\ r # c.id
            /\ SubscribedAt(w, s, r, Property(label), label \o x)
            /\ SubscribedAt(w, Ret(w.log, s), r, Property(label), label \o x)
            /\ Responds(w.log, s, x, label)

\* The current children of a box that are classes with neither Transfer nor
\* a quarter among their current parents.
Unscheduled(w, box) ==
  {r \in DOMAIN RelationOf(w, box, "children") :
     Type(r) = "class" /\ Scheduled(RelationOf(w, r, "parents")) = {}}

\* C27. On every box with the children_scheduled rule, the error
\* not-scheduled is present exactly when some current child that is a
\* class has neither Transfer nor a quarter among its current parents.
ChildrenScheduled ==
  \A box \in Carrying("not-scheduled") :
    "not-scheduled" \in DOMAIN Errors(World, box) <=> Unscheduled(World, box) # {}

\* A box with the rule and a child that stays its child, in two
\* recalculations of other boxes: one of a quarter, which gains the child
\* and clears the error, and one of Transfer, which loses the child, leaves
\* it without a quarter and sets the error.
ChildrenScheduledWitness ==
  \E box \in Carrying("not-scheduled") :
    \E r \in DOMAIN children(box) :
      \/ \E c \in Recalculations :
           LET w == Run(c)
           IN /\ Type(c.id) = "quarter"
              /\ r \in Unscheduled(World, box)
              /\ "not-scheduled" \in DOMAIN Errors(World, box)
              /\ r \in DOMAIN RelationOf(w, box, "children")
              /\ Unscheduled(w, box) = {}
              /\ "not-scheduled" \notin DOMAIN Errors(w, box)
      \/ \E c \in Recalculations :
           LET w == Run(c)
           IN /\ c.id = TRANSFER
              /\ Unscheduled(World, box) = {}
              /\ "not-scheduled" \notin DOMAIN Errors(World, box)
              /\ r \in Unscheduled(w, box)
              /\ "not-scheduled" \in DOMAIN Errors(w, box)

\* C28. On every box with the children_min rule, the error children-min is
\* present exactly when the number of the box's current distinct children
\* is below the threshold.
ChildrenMin ==
  \A box \in Carrying("children-min") :
    "children-min" \in DOMAIN Errors(World, box)
      <=> Cardinality(DOMAIN children(box)) < children_min(box)

\* C29. Symmetry inside a cascade: every time a listener is called during
\* a recalculation, for all boxes A and B the count of B in A's children is
\* the count of A in B's parents, absent together.
SymmetryInCascade == \A c \in Recalculations : Run(c).sym

\* A recalculation that changes the counts of two relatives of one field,
\* with a listener called on the first relative's write before the second
\* relative is written.
SymmetryInCascadeWitness ==
  \E c \in Recalculations :
    LET w == Run(c)
    IN \E field \in Fields :
         \E r1 \in Ents, r2 \in Ents :
           /\ r1 # r2
           /\ CountIn(World, c.id, field, r1) # CountIn(w, c.id, field, r1)
           /\ CountIn(World, c.id, field, r2) # CountIn(w, c.id, field, r2)
           /\ \E i \in ListenersOn(w.log, r1, Mirror(field)) :
                \A j \in SetsOn(w.log, r2, Mirror(field)) : i < j

\* The callback calls of a log.
Callbacks(l) == {i \in DOMAIN l : l[i].e = "callback"}

\* C30. Every time the callback of a rule is called, every key of the state
\* it receives is present in the box's relation at that moment.
CallbackKeysPresent ==
  \A c \in Calls :
    LET w == Run(c)
    IN \A i \in Callbacks(w.log) : w.log[i].d.keys \subseteq w.log[i].d.present

\* The calls of the client that write its property.
FanSetCalls == {StoreCall("set", ClientBox, FanProp, "", 1)}

\* The calls of the listeners under a label between two positions of a log.
Turns(l, box, prop, label, from, to) ==
  {i \in (from + 1)..(to - 1) :
     l[i].e = "listener" /\ l[i].box = box /\ l[i].rel = prop /\ l[i].rule = label}

\* The subscriptions (e = "subscribe") or removals (e = "unsubscribe") of a
\* label on a property between two positions of a log.
Changes(l, e, box, prop, label, from, to) ==
  {i \in (from + 1)..(to - 1) :
     l[i].e = e /\ l[i].box = box /\ l[i].rel = prop /\ l[i].rule = label}

\* In the log of a returned call: within every set_property, a callback
\* subscribed to the written property under a label that had no callback,
\* and not unsubscribed again, is called after that and before the
\* set_property returns; a callback unsubscribed before it was called in
\* that set_property, and not subscribed again, is not called in it.
LiveFanOut(w) ==
  \A s \in {i \in DOMAIN w.log : w.log[i].e = "set"} :
    LET l == w.log
        box == l[s].box
        prop == l[s].rel
        r == Ret(l, s)
    IN \A u \in (s + 1)..(r - 1) :
         /\ /\ l[u].e = "subscribe" /\ l[u].box = box /\ l[u].rel = prop
            /\ ~SubscribedAt(w, u - 1, box, prop, l[u].rule)
            /\ Changes(l, "unsubscribe", box, prop, l[u].rule, u, r) = {}
            => Turns(l, box, prop, l[u].rule, u, r) # {}
         /\ /\ l[u].e = "unsubscribe" /\ l[u].box = box /\ l[u].rel = prop
            /\ Turns(l, box, prop, l[u].rule, s, u) = {}
            /\ Changes(l, "subscribe", box, prop, l[u].rule, u, r) = {}
            => Turns(l, box, prop, l[u].rule, u, r) = {}

\* C31. Fan-out sees live subscriptions: in every recalculation and in
\* every set_property of a client, a listener subscribed to the property
\* under a new label while the set_property is in progress (in its update
\* step or from one of its listeners) is called in that same fan-out, and a
\* listener unsubscribed before its turn is not called.
FanOutLive ==
  /\ \A c \in Recalculations : LiveFanOut(Run(c))
  /\ \A c \in FanSetCalls : LiveFanOut(FanRun(c))

\* A listener of the client that subscribes a new label, which is then
\* called in the same fan-out; and a recalculation in which a listener of
\* the written property is unsubscribed in the update step and the fan-out
\* that follows calls another listener and not that one.
FanOutWitness ==
  /\ \E c \in FanSetCalls :
       LET w == FanRun(c)
       IN \E u \in DOMAIN w.log :
            /\ w.log[u].e = "subscribe" /\ w.log[u].rule = "third"
            /\ ~Listening(World, ClientBox, FanProp, "third")
            /\ \E i \in DOMAIN w.log : i < u /\ w.log[i].e = "listener"
            /\ Turns(w.log, ClientBox, FanProp, "third", u, Len(w.log)) # {}
  /\ \E c \in Recalculations :
       LET w == Run(c)
       IN \E s \in DOMAIN w.log :
            /\ w.log[s].e = "set"
            /\ \E u \in (s + 1)..(Ret(w.log, s) - 1) :
                 /\ w.log[u].e = "unsubscribe"
                 /\ w.log[u].box = w.log[s].box /\ w.log[u].rel = w.log[s].rel
                 /\ Listening(World, w.log[s].box, w.log[s].rel, w.log[u].rule)
                 /\ Turns(w.log, w.log[s].box, w.log[s].rel, w.log[u].rule,
                          s, Ret(w.log, s)) = {}
                 /\ \E i \in (u + 1)..(Ret(w.log, s) - 1) :
                      /\ w.log[i].e = "listener"
                      /\ w.log[i].box = w.log[s].box /\ w.log[i].rel = w.log[s].rel

\* C32. No self-relation: in every reachable state no box is in its own
\* parents or children map.
NoSelfRelation ==
  \A id \in Ents : id \notin DOMAIN parents(id) /\ id \notin DOMAIN children(id)

\* A box with two regions, one strictly inside the other, whose
\* recalculation leaves it out of its own maps.
NoSelfRelationWitness ==
  \E id \in Ents :
    /\ \E i \in DOMAIN svgs[id], j \in DOMAIN svgs[id] : is_parent(svgs[id][i], svgs[id][j])
    /\ \E c \in Recalculations :
         /\ c.id = id /\ c.name = "recalculate"
         /\ id \notin DOMAIN RelationOf(Run(c), id, "parents")
         /\ id \notin DOMAIN RelationOf(Run(c), id, "children")

====
